---- MODULE Spec2Model ----
(***************************************************************************)
(* Model of the MELO report application: the single-file Streamlit report  *)
(* (src/app.py) and the keyword chatbot (src/app/chatbot.py).              *)
(*                                                                         *)
(* A DataFrame is a record [columns, rows]; rows is a sequence of records  *)
(* with one field per modelled column.  A Week cell is tagged: a number    *)
(* [t |-> "num", v |-> 9] or a text cell [t |-> "str", v |-> <<"9">>], so  *)
(* that pd.to_numeric is a real conversion.  Text is a sequence of         *)
(* one-character strings.                                                  *)
(***************************************************************************)
EXTENDS Integers, Sequences, FiniteSets, TLC

\* ---------------------------------------------------------------- bounds
NumBrands == 6
NumWeeks == 5
FirstWeek == 8
MaxCount == 1
MaxMissing == 2
MaxWords == 3
MaxRows == 2

\* ------------------------------------------------------ program constants
\* sorted(...)[:4] in load_and_process_data
WindowSize == 4
\* brand_totals.nlargest(5) in create_summary_tables
TopN == 5
\* n = 5 default in AnalysisChatbot._get_top_brands
DefaultN == 5

required_columns ==
    << "count", "protected_brand_id", "protected_brand_name", "marketplace_id",
       "action_type", "rule_id", "template_source", "infringing_brand",
       "action_date", "gl_product_group_desc", "template_sub_type", "Week" >>

GrandTotal == "Grand Total"
GrandTotalText == << "G", "r", "a", "n", "d", " ", "T", "o", "t", "a", "l" >>

\* --------------------------------------------------------------- helpers
Range(s) == { s[i] : i \in 1..Len(s) }

Min(a, b) == IF a < b THEN a ELSE b

\* the sequence s, with its elements evaluated once
Seq1(s) == s \o << >>

RECURSIVE SeqSum(_)
SeqSum(s) == IF s = << >> THEN 0 ELSE Head(s) + SeqSum(Tail(s))

\* position of the first occurrence of x in s (0 when absent)
RECURSIVE IndexFrom(_, _, _)
IndexFrom(s, x, i) ==
    IF i > Len(s) THEN 0 ELSE IF s[i] = x THEN i ELSE IndexFrom(s, x, i + 1)
IndexOf(s, x) == IndexFrom(s, x, 1)

\* sorted(values, reverse=True) on a set of distinct integers
RECURSIVE SortedDesc(_)
SortedDesc(S) ==
    IF S = {} THEN << >>
    ELSE LET m == CHOOSE x \in S : \A y \in S : y <= x
         IN  << m >> \o SortedDesc(S \ {m})

\* ascending order of a set of distinct integers (pivot_table sorts columns)
RECURSIVE SortedAsc(_)
SortedAsc(S) ==
    IF S = {} THEN << >>
    ELSE LET m == CHOOSE x \in S : \A y \in S : x <= y
         IN  << m >> \o SortedAsc(S \ {m})

\* s[:n]
Take(s, n) == SubSeq(s, 1, Min(n, Len(s)))

\* ------------------------------------------------------- text conversions
Digits == << "0", "1", "2", "3", "4", "5", "6", "7", "8", "9" >>

\* str(week) / Index.astype(str) on a non-negative integer
RECURSIVE Str(_)
Str(n) ==
    IF n < 10 THEN << Digits[n + 1] >>
    ELSE Str(n \div 10) \o << Digits[(n % 10) + 1] >>

IsDigitText(s) == s # << >> /\ \A i \in 1..Len(s) : s[i] \in Range(Digits)

RECURSIVE ParseDigits(_)
ParseDigits(s) ==
    IF s = << >> THEN 0
    ELSE 10 * ParseDigits(SubSeq(s, 1, Len(s) - 1)) + (IndexOf(Digits, s[Len(s)]) - 1)

\* pd.to_numeric on one cell: numbers pass, digit text is parsed
CanCoerce(cell) == IF cell.t = "num" THEN TRUE ELSE IsDigitText(cell.v)
to_numeric(cell) ==
    IF cell.t = "num" THEN cell ELSE [t |-> "num", v |-> ParseDigits(cell.v)]

\* ----------------------------------------------------------- input domain
BrandNames == << "A", "B", "C", "D", "E", "F", "G", "H" >>
MktNames == << "UK", "US" >>
CategoryNames == << "cat1", "cat2" >>
InfringerNames == << "inf1", "inf2" >>
Brands == { BrandNames[i] : i \in 1..NumBrands }
Mkts == Range(MktNames)
Weeks == FirstWeek .. (FirstWeek + NumWeeks - 1)
Counts == 0..MaxCount

\* lexicographic order of the labels, as groupby / pivot_table sort them
BrandRank(b) == IndexOf(BrandNames, b)

WeekCell(fmt, w) ==
    IF fmt = "num" THEN [t |-> "num", v |-> w] ELSE [t |-> "str", v |-> Str(w)]
BadCell == [t |-> "str", v |-> << "n", "/", "a" >>]

Row(b, wk, m, c, cat, inf) ==
    [ protected_brand_name |-> b, Week |-> wk, marketplace_id |-> m, count |-> c,
      gl_product_group_desc |-> cat, infringing_brand |-> inf ]

\* a regular block: the first nb brands each have one row of count c in each
\* of the first nw weeks
Grid(fmt, nb, nw, c) ==
    Seq1([ k \in 1..(nb * nw) |->
        LET i == ((k - 1) \div nw) + 1
            j == ((k - 1) % nw) + 1
        IN  Row(BrandNames[i], WeekCell(fmt, FirstWeek + j - 1),
                MktNames[(i % Len(MktNames)) + 1], c, "cat1", "inf1") ])

\* block sizes below, at and above the sizes the program cuts at
Grids(fmt) ==
    { << >> } \cup
    { Grid(fmt, nb, nw, c) :
        nb \in { 1, TopN, NumBrands }, nw \in { 1, WindowSize, NumWeeks }, c \in Counts }

\* a Week column stored as text comes with a one-brand block
Blocks(fmt) ==
    IF fmt = "num" THEN Grids(fmt)
    ELSE { << >> } \cup
         { Grid(fmt, 1, nw, c) : nw \in { 1, WindowSize, NumWeeks }, c \in Counts }

ExtraRows(fmt) ==
    { Row(b, wk, m, c, "cat2", "inf2") :
        b \in Brands, wk \in { WeekCell(fmt, w) : w \in Weeks } \cup { BadCell },
        m \in Mkts, c \in Counts }

Extras(fmt) == { << >> } \cup { << r >> : r \in ExtraRows(fmt) }

\* the one row of a workbook that lacks required columns
LoneRows(fmt) ==
    { << >> } \cup
    { << Row(BrandNames[1], wk, MktNames[1], MaxCount, "cat2", "inf2") >> :
        wk \in { WeekCell(fmt, w) : w \in Weeks } \cup { BadCell } }

Formats == { "num", "str" }

MissingSets ==
    { m \in SUBSET Range(required_columns) : Cardinality(m) \in 0..MaxMissing }

NoFrame == [ columns |-> {}, rows |-> << >> ]
NoTable == [ index |-> << >>, columns |-> << >>, data |-> << >> ]
NoError == [ kind |-> "none", what |-> "" ]
NoSeries == [ index |-> << >>, values |-> << >> ]
NoResponse ==
    [ outcome |-> "none", handler |-> "none", n |-> 0, result |-> NoSeries, text |-> "" ]

VARIABLES
    pc,                \* position of main() in the current run
    file,              \* the table as read by pd.read_excel
    df,                \* the DataFrame object handed through the pipeline
    processed,         \* processed_df is not None
    unique_weeks,      \* the week window returned by the loader
    weekly_df, brand_weekly, brand_pivot, marketplace_pivot,
    brand_overviews,   \* the per-brand overviews, in dict order
    error,             \* what st.error reported in this run
    overview_text,     \* the text of each brand's expander, in page order
    chatbot_df,        \* AnalysisChatbot.df
    query,             \* the text entered in the chatbot page
    response,          \* what process_query did with it
    data_processor,    \* the DataProcessor: its df, brand_pivot, marketplace_pivot
    load_error,        \* what the last load_data call raised
    chatbot,           \* ASINAnalyalysisApp.chatbot
    session_state,     \* st.session_state, kept between runs
    uploaded_file,     \* what st.file_uploader returned in this run
    outcome,           \* what run() put on the page
    app_pc             \* "idle" between runs, "constructed" once the app object exists

tables == << weekly_df, brand_weekly, brand_pivot, marketplace_pivot, brand_overviews >>

report == << pc, file, df, processed, unique_weeks, tables, error, overview_text >>

chat == << chatbot_df, query, response >>

app == << data_processor, load_error, chatbot, session_state, uploaded_file, outcome, app_pc >>

vars == << report, chat, app >>

\* Python's None
None == [ none |-> TRUE ]

\* DataProcessor.__init__
NewDataProcessor == [ df |-> None, brand_pivot |-> None, marketplace_pivot |-> None ]

NoOutcome == [ shown |-> "nothing", raised |-> "none" ]

\* no application object yet, an empty session
AppStart ==
    /\ data_processor = NewDataProcessor
    /\ load_error = "none"
    /\ chatbot = None
    /\ session_state = {}
    /\ uploaded_file = None
    /\ outcome = NoOutcome
    /\ app_pc = "idle"

Init ==
    /\ pc = "start"
    /\ file = NoFrame
    /\ df = NoFrame
    /\ processed = FALSE
    /\ unique_weeks = << >>
    /\ weekly_df = NoTable
    /\ brand_weekly = NoTable
    /\ brand_pivot = NoTable
    /\ marketplace_pivot = NoTable
    /\ brand_overviews = << >>
    /\ error = NoError
    /\ overview_text = << >>
    /\ chatbot_df = << >>
    /\ query = << >>
    /\ response = NoResponse
    /\ AppStart

\* main(): a run starts with an uploaded workbook read into df.  The workbook
\* holds a block followed by at most one further row; workbooks that lack
\* required columns hold at most the one row.
ReadExcel ==
    /\ pc = "start"
    /\ \E fmt \in Formats, m \in MissingSets :
         \E g \in (IF m = {} THEN Blocks(fmt) ELSE { << >> }),
            e \in (IF m = {} THEN Extras(fmt) ELSE LoneRows(fmt)) :
            /\ file' = [ columns |-> Range(required_columns) \ m, rows |-> g \o e ]
            /\ df' = file'
    /\ pc' = "read"
    /\ UNCHANGED << processed, unique_weeks, tables, error, overview_text, chat, app >>

\* ---------------------------------------------------- load_and_process_data
MissingColumns(d) == { c \in Range(required_columns) : c \notin d.columns }

\* the last missing column instead of the first
LastMissing(d) ==
    LET i == CHOOSE i \in 1..Len(required_columns) :
                 /\ required_columns[i] \notin d.columns
                 /\ \A j \in (i + 1)..Len(required_columns) : required_columns[j] \in d.columns
    IN  required_columns[i]

\* the first required column, in declared order, that the frame lacks
FirstMissing(d) ==
    LET i == CHOOSE i \in 1..Len(required_columns) :
                 /\ required_columns[i] \notin d.columns
                 /\ \A j \in 1..(i - 1) : required_columns[j] \in d.columns
    IN  required_columns[i]

CoerceWeek(d) ==
    [ d EXCEPT !.rows = Seq1([ k \in 1..Len(d.rows) |->
                            [ d.rows[k] EXCEPT !.Week = to_numeric(@) ] ]) ]

WeekValues(rows) == { rows[k].Week.v : k \in 1..Len(rows) }

\* the first four weeks instead of the last four
LastWeeksAscending(rows) == Take(SortedAsc(WeekValues(rows)), WindowSize)

\* sorted(df['Week'].unique(), reverse=True)[:4]
LastWeeks(rows) == Take(SortedDesc(WeekValues(rows)), WindowSize)

LoadMissingColumn ==
    /\ pc = "read"
    /\ MissingColumns(df) # {}
    /\ error' = [ kind |-> "missing_column", what |-> FirstMissing(df) ]
    /\ processed' = FALSE
    /\ pc' = "done"
    /\ UNCHANGED << file, df, unique_weeks, tables, overview_text, chat, app >>

LoadCoerceError ==
    /\ pc = "read"
    /\ MissingColumns(df) = {}
    /\ \E k \in 1..Len(df.rows) : ~CanCoerce(df.rows[k].Week)
    /\ error' = [ kind |-> "exception", what |-> "ValueError" ]
    /\ pc' = "done"
    /\ UNCHANGED << file, df, processed, unique_weeks, tables, overview_text, chat, app >>

LoadAndProcessData ==
    /\ pc = "read"
    /\ MissingColumns(df) = {}
    /\ \A k \in 1..Len(df.rows) : CanCoerce(df.rows[k].Week)
    /\ df' = CoerceWeek(df)
    /\ unique_weeks' = LastWeeks(df'.rows)
    /\ processed' = TRUE
    /\ pc' = "processed"
    /\ UNCHANGED << file, tables, error, overview_text, chat, app >>

\* ------------------------------------------------------ pandas primitives
RowsWhere(rows, Test(_)) == SelectSeq(rows, Test)

RECURSIVE SumCount(_)
SumCount(rows) ==
    IF rows = << >> THEN 0 ELSE Head(rows).count + SumCount(Tail(rows))

InWindow(rows, weeks) == RowsWhere(rows, LAMBDA r : r.Week.v \in Range(weeks))

\* labels of a set in the sorted order groupby and pivot_table give them
SortedLabels(S, names) ==
    LET ranks == SortedAsc({ IndexOf(names, x) : x \in S })
    IN  Seq1([ i \in 1..Len(ranks) |-> names[ranks[i]] ])

RemoveAt(s, k) == SubSeq(s, 1, k - 1) \o SubSeq(s, k + 1, Len(s))

\* positions pos ordered by descending val, equal values in their given order
RECURSIVE OrderDesc(_, _)
OrderDesc(pos, val) ==
    IF pos = << >> THEN << >>
    ELSE LET k == CHOOSE k \in 1..Len(pos) :
                     /\ \A j \in 1..Len(pos) : val[pos[j]] <= val[pos[k]]
                     /\ \A j \in 1..(k - 1) : val[pos[j]] < val[pos[k]]
         IN  << pos[k] >> \o OrderDesc(RemoveAt(pos, k), val)

\* df.groupby(col)['count'].sum(): keys in sorted order with their totals
GroupSum(rows, col, names) ==
    LET keys == SortedLabels({ rows[k][col] : k \in 1..Len(rows) }, names)
    IN  [ index |-> keys,
          values |-> Seq1([ i \in 1..Len(keys) |->
                         SumCount(RowsWhere(rows, LAMBDA r : r[col] = keys[i])) ]) ]

\* the first n entries instead of the n greatest
head(series, n) ==
    [ index |-> Take(series.index, n), values |-> Take(series.values, n) ]

\* Series.nlargest(n): the n greatest, descending, first occurrence wins ties
nlargest(series, n) ==
    LET order == Take(OrderDesc(Seq1([ i \in 1..Len(series.index) |-> i ]),
                                series.values), n)
    IN  [ index |-> Seq1([ i \in 1..Len(order) |-> series.index[order[i]] ]),
          values |-> Seq1([ i \in 1..Len(order) |-> series.values[order[i]] ]) ]

\* pd.pivot_table(rows, values='count', index=col, columns='Week',
\*                aggfunc='sum', fill_value=0)
PivotRow(group, wks) ==
    Seq1([ j \in 1..Len(wks) |->
             SumCount(RowsWhere(group, LAMBDA r : r.Week.v = wks[j])) ])

pivot_table(rows, col, names) ==
    LET keys == SortedLabels({ rows[k][col] : k \in 1..Len(rows) }, names)
        wks == SortedAsc({ rows[k].Week.v : k \in 1..Len(rows) })
    IN  [ index |-> keys,
          columns |-> wks,
          data |-> Seq1([ i \in 1..Len(keys) |->
                     PivotRow(RowsWhere(rows, LAMBDA r : r[col] = keys[i]), wks) ]) ]

\* table[unique_weeks] raises KeyError unless every week is a column
HasColumns(t, weeks) == \A i \in 1..Len(weeks) : weeks[i] \in Range(t.columns)

\* the listed columns, left in the order the pivot gave them
SelectColumnsUnordered(t, weeks) ==
    LET kept == SelectSeq(t.columns, LAMBDA w : w \in Range(weeks))
    IN  [ t EXCEPT !.columns = kept,
                   !.data = Seq1([ i \in 1..Len(t.index) |-> Seq1([ j \in 1..Len(kept) |->
                                t.data[i][IndexOf(t.columns, kept[j])] ]) ]) ]

\* table[unique_weeks]: the listed columns, in the listed order
SelectColumns(t, weeks) ==
    [ t EXCEPT !.columns = weeks,
               !.data = Seq1([ i \in 1..Len(t.index) |-> Seq1([ j \in 1..Len(weeks) |->
                            t.data[i][IndexOf(t.columns, weeks[j])] ]) ]) ]

\* table.columns = table.columns.astype(str)
ColumnsAsStr(t) ==
    [ t EXCEPT !.columns = Seq1([ j \in 1..Len(t.columns) |-> Str(t.columns[j]) ]) ]

\* a row total that leaves out the first week column
AddTotalColumnSkipFirst(t) ==
    [ t EXCEPT !.columns = Append(t.columns, GrandTotalText),
               !.data = Seq1([ i \in 1..Len(t.index) |->
                                 Append(t.data[i], SeqSum(Tail(t.data[i]))) ]) ]

\* table['Grand Total'] = table.sum(axis=1)
AddTotalColumn(t) ==
    [ t EXCEPT !.columns = Append(t.columns, GrandTotalText),
               !.data = Seq1([ i \in 1..Len(t.index) |->
                                 Append(t.data[i], SeqSum(t.data[i])) ]) ]

\* table.sort_values('Grand Total', ascending=False); rows of equal total keep
\* their order
SortByTotal(t) ==
    LET last == Len(t.columns)
        order == OrderDesc(Seq1([ i \in 1..Len(t.index) |-> i ]),
                           Seq1([ i \in 1..Len(t.index) |-> t.data[i][last] ]))
    IN  [ t EXCEPT !.index = Seq1([ i \in 1..Len(order) |-> t.index[order[i]] ]),
                   !.data = Seq1([ i \in 1..Len(order) |-> t.data[order[i]] ]) ]

\* table.loc['Grand Total'] = table.sum()
AddTotalRow(t) ==
    [ t EXCEPT !.index = Append(t.index, GrandTotal),
               !.data = Append(t.data,
                    Seq1([ j \in 1..Len(t.columns) |->
                        SeqSum([ i \in 1..Len(t.index) |-> t.data[i][j] ]) ])) ]

FinishPivot(t, weeks) ==
    AddTotalRow(SortByTotal(AddTotalColumn(ColumnsAsStr(SelectColumns(t, weeks)))))

\* ----------------------------------------------------- create_summary_tables
\* the weekly summary with the Grand Total leaving out the last listed week
WeeklySummaryShortTotal(rows, weeks) ==
    LET counts == Seq1([ i \in 1..Len(weeks) |->
                      SumCount(RowsWhere(rows, LAMBDA r : r.Week.v = weeks[i])) ])
    IN  [ index |-> Append([ i \in 1..Len(weeks) |-> Str(weeks[i]) ], GrandTotalText),
          columns |-> << "ASIN Count" >>,
          data |-> Append([ i \in 1..Len(weeks) |-> << counts[i] >> ],
                          << SeqSum(SubSeq(counts, 1, Len(counts) - 1)) >>) ]

WeeklySummary(rows, weeks) ==
    LET counts == Seq1([ i \in 1..Len(weeks) |->
                      SumCount(RowsWhere(rows, LAMBDA r : r.Week.v = weeks[i])) ])
    IN  [ index |-> Append([ i \in 1..Len(weeks) |-> Str(weeks[i]) ], GrandTotalText),
          columns |-> << "ASIN Count" >>,
          data |-> Append([ i \in 1..Len(weeks) |-> << counts[i] >> ],
                          << SeqSum(counts) >>) ]

brand_totals(rows, weeks) ==
    GroupSum(InWindow(rows, weeks), "protected_brand_name", BrandNames)

top_5_brands(rows, weeks) == nlargest(brand_totals(rows, weeks), TopN).index

\* the pivot source of brand_weekly: rows of the top brands, of any week
\* df[df['protected_brand_name'].isin(top_5_brands)]
IsIn(rows, selected) == RowsWhere(rows, LAMBDA r : r.protected_brand_name \in selected)

TopBrandRows(rows, weeks) == IsIn(rows, Range(top_5_brands(rows, weeks)))

TopBrandPivot(rows, weeks) ==
    pivot_table(TopBrandRows(rows, weeks), "protected_brand_name", BrandNames)

\* latest_week = max(unique_weeks) raises ValueError on an empty window
MainNoWeeks ==
    /\ pc = "processed"
    /\ unique_weeks = << >>
    /\ error' = [ kind |-> "exception", what |-> "ValueError" ]
    /\ pc' = "done"
    /\ UNCHANGED << file, df, processed, unique_weeks, tables, overview_text, chat, app >>

CreateSummaryTables ==
    /\ pc = "processed"
    /\ unique_weeks # << >>
    /\ LET brand_weekly_raw == TopBrandPivot(df.rows, unique_weeks) IN
          /\ HasColumns(brand_weekly_raw, unique_weeks)
          /\ brand_weekly' = FinishPivot(brand_weekly_raw, unique_weeks)
    /\ weekly_df' = WeeklySummary(df.rows, unique_weeks)
    /\ pc' = "summarised"
    /\ UNCHANGED << file, df, processed, unique_weeks, brand_pivot, marketplace_pivot,
                    brand_overviews, error, overview_text, chat, app >>

\* brand_weekly[unique_weeks] raised KeyError; main() reports it and stops
CreateSummaryTablesKeyError ==
    /\ pc = "processed"
    /\ unique_weeks # << >>
    /\ ~HasColumns(TopBrandPivot(df.rows, unique_weeks), unique_weeks)
    /\ error' = [ kind |-> "exception", what |-> "KeyError" ]
    /\ pc' = "done"
    /\ UNCHANGED << file, df, processed, unique_weeks, tables, overview_text, chat, app >>

\* -------------------------------------------------- create_full_pivot_tables
FullPivot(rows, weeks, col, names) ==
    FinishPivot(pivot_table(InWindow(rows, weeks), col, names), weeks)

CreateFullPivotTables ==
    /\ pc = "summarised"
    /\ brand_pivot' = FullPivot(df.rows, unique_weeks, "protected_brand_name", BrandNames)
    /\ marketplace_pivot' = FullPivot(df.rows, unique_weeks, "marketplace_id", MktNames)
    /\ pc' = "pivoted"
    /\ UNCHANGED << file, df, processed, unique_weeks, weekly_df, brand_weekly,
                    brand_overviews, error, overview_text, chat, app >>

\* -------------------------------------------------- generate_brand_overview
\* max(unique_weeks)
latest_week(weeks) == CHOOSE w \in Range(weeks) : \A x \in Range(weeks) : x <= w

\* groupby(marketplace_id)['count'].sum() / total_count * 100, in hundredths
\* of a percent; a zero total makes every share NaN, which nlargest drops
marketplace_share(rows, total) ==
    LET sums == GroupSum(rows, "marketplace_id", MktNames)
    IN  IF total = 0 THEN NoSeries
        ELSE [ index |-> sums.index,
               values |-> Seq1([ i \in 1..Len(sums.index) |->
                              (sums.values[i] * 10000) \div total ]) ]

BrandOverview(rows, week, brand) ==
    LET latest_week_data ==
            RowsWhere(rows, LAMBDA r : r.protected_brand_name = brand /\ r.Week.v = week)
        total_count == SumCount(latest_week_data)
    IN  [ brand |-> brand,
          total_suppressions |-> total_count,
          top_marketplace |-> nlargest(marketplace_share(latest_week_data, total_count), 1),
          top_category |->
              nlargest(GroupSum(latest_week_data, "gl_product_group_desc", CategoryNames), 1),
          suspect_brands |->
              nlargest(GroupSum(latest_week_data, "infringing_brand", InfringerNames), 2) ]

\* for brand in top_5_brands[:-1]
generate_brand_overview(rows, week, index) ==
    Seq1([ i \in 1..(Len(index) - 1) |-> BrandOverview(rows, week, index[i]) ])

GenerateBrandOverview ==
    /\ pc = "pivoted"
    /\ brand_overviews' =
           generate_brand_overview(df.rows, latest_week(unique_weeks), brand_weekly.index)
    /\ pc' = "overviewed"
    /\ UNCHANGED << file, df, processed, unique_weeks, weekly_df, brand_weekly,
                    brand_pivot, marketplace_pivot, error, overview_text, chat, app >>

\* the lines main() appends to overview_text for one brand's expander
Lines(kind, series) ==
    Seq1([ i \in 1..Len(series.index) |->
             [ kind |-> kind, label |-> series.index[i], value |-> series.values[i] ] ])

OverviewText(data) ==
    << [ kind |-> "total", label |-> data.brand, value |-> data.total_suppressions ] >>
    \o Lines("marketplace", data.top_marketplace)
    \o Lines("category", data.top_category)
    \o (IF data.suspect_brands.index # << >>
        THEN Lines("suspect", data.suspect_brands) ELSE << >>)

\* Section 4 of the main report: one expander per brand of brand_weekly
\* except the Grand Total row
Render ==
    /\ pc = "overviewed"
    /\ overview_text' =
           Seq1([ i \in 1..(Len(brand_weekly.index) - 1) |->
                    OverviewText(brand_overviews[i]) ])
    /\ pc' = "done"
    /\ UNCHANGED << file, df, processed, unique_weeks, tables, error, chat, app >>

Next ==
    \/ ReadExcel
    \/ LoadMissingColumn
    \/ LoadCoerceError
    \/ LoadAndProcessData
    \/ MainNoWeeks
    \/ CreateSummaryTables
    \/ CreateSummaryTablesKeyError
    \/ CreateFullPivotTables
    \/ GenerateBrandOverview
    \/ Render

Spec == Init /\ [][Next]_vars

\* ============================================================ AnalysisChatbot
UpperChars == << "A", "B", "C", "D", "E", "F", "G", "H", "I", "J", "K", "L", "M", "N", "O", "P", "Q", "R", "S", "T", "U", "V", "W", "X", "Y", "Z" >>
LowerChars == << "a", "b", "c", "d", "e", "f", "g", "h", "i", "j", "k", "l", "m", "n", "o", "p", "q", "r", "s", "t", "u", "v", "w", "x", "y", "z" >>

\* str.lower()
LowerOf == [ c \in Range(UpperChars) |-> LowerChars[IndexOf(UpperChars, c)] ]
Lower(text) ==
    Seq1([ i \in 1..Len(text) |->
             IF text[i] \in DOMAIN LowerOf THEN LowerOf[text[i]] ELSE text[i] ])

\* needle in text
Contains(text, needle) ==
    \E i \in 0..(Len(text) - Len(needle)) : SubSeq(text, i + 1, i + Len(needle)) = needle

\* self.commands, in insertion order
commands ==
    << << "t", "o", "p", " ", "b", "r", "a", "n", "d", "s" >>,
       << "m", "a", "r", "k", "e", "t", "p", "l", "a", "c", "e", " ", "s", "t", "a", "t", "s" >>,
       << "w", "e", "e", "k", "l", "y", " ", "t", "r", "e", "n", "d" >>,
       << "b", "r", "a", "n", "d", " ", "d", "e", "t", "a", "i", "l", "s" >>,
       << "h", "e", "l", "p" >> >>
command_names == << "top brands", "marketplace stats", "weekly trend", "brand details", "help" >>

\* for command, handler in self.commands.items(): if command in query
Matching(q) == { i \in 1..Len(commands) : Contains(q, commands[i]) }
\* the last matching command instead of the first
DispatchLast(q) ==
    LET found == Matching(q)
    IN  IF found = {} THEN 0 ELSE CHOOSE i \in found : \A j \in found : j <= i

Dispatch(q) ==
    LET found == Matching(q)
    IN  IF found = {} THEN 0 ELSE CHOOSE i \in found : \A j \in found : i <= j

\* re.search(r'top (\d+)', query): leftmost match, digits taken greedily
TopPrefix == << "t", "o", "p", " " >>
RegexStarts(q) ==
    { i \in 1..Len(q) :
        /\ i + Len(TopPrefix) <= Len(q)
        /\ SubSeq(q, i, i + Len(TopPrefix) - 1) = TopPrefix
        /\ q[i + Len(TopPrefix)] \in Range(Digits) }
RECURSIVE DigitRun(_, _)
DigitRun(q, i) ==
    IF i > Len(q) THEN << >>
    ELSE IF q[i] \in Range(Digits) THEN << q[i] >> \o DigitRun(q, i + 1) ELSE << >>
RequestedN(q) ==
    IF RegexStarts(q) = {} THEN DefaultN
    ELSE LET i == CHOOSE i \in RegexStarts(q) : \A j \in RegexStarts(q) : i <= j
         IN  ParseDigits(DigitRun(q, i + Len(TopPrefix)))

Reply(handler, n, result, text) ==
    [ outcome |-> "returned", handler |-> handler, n |-> n, result |-> result, text |-> text ]

_get_top_brands(rows, q) ==
    Reply("top brands", RequestedN(q),
          nlargest(GroupSum(rows, "protected_brand_name", BrandNames), RequestedN(q)),
          "Top n brands by suppression count")

\* groupby('marketplace_id')['count'].sum().sort_values(ascending=False)
_get_marketplace_stats(rows) ==
    LET sums == GroupSum(rows, "marketplace_id", MktNames)
    IN  Reply("marketplace stats", 0, nlargest(sums, Len(sums.index)), "Marketplace statistics")

\* groupby('Week')['count'].sum()
WeekTrend(rows) ==
    LET wks == SortedAsc({ rows[k].Week.v : k \in 1..Len(rows) })
    IN  [ index |-> wks,
          values |-> Seq1([ i \in 1..Len(wks) |->
                         SumCount(RowsWhere(rows, LAMBDA r : r.Week.v = wks[i])) ]) ]

_get_weekly_trend(rows) == Reply("weekly trend", 0, WeekTrend(rows), "Weekly trend")

\* df['protected_brand_name'].unique(): order of first appearance
RECURSIVE Unique(_, _)
Unique(rows, seen) ==
    IF rows = << >> THEN << >>
    ELSE IF Head(rows).protected_brand_name \in seen THEN Unique(Tail(rows), seen)
    ELSE << Head(rows).protected_brand_name >>
             \o Unique(Tail(rows), seen \cup { Head(rows).protected_brand_name })

_get_brand_details(rows, q) ==
    LET brands == Unique(rows, {})
        hits == { i \in 1..Len(brands) : Contains(q, Lower(<< brands[i] >>)) }
    IN  IF hits = {} THEN Reply("brand details", 0, NoSeries, "Brand not found")
        ELSE LET b == brands[CHOOSE i \in hits : \A j \in hits : i <= j]
             IN  Reply("brand details", 0,
                       WeekTrend(RowsWhere(rows, LAMBDA r : r.protected_brand_name = b)),
                       "Details for " \o b)

_get_help == Reply("help", 0, NoSeries, "Available commands")

\* handler(query) with the one-argument bound method _get_help
HelpCallRaises ==
    [ outcome |-> "raised", handler |-> "help", n |-> 0, result |-> NoSeries,
      text |-> "TypeError" ]

\* ------------------------------------------------------- chatbot questions
Vocabulary ==
    { << "t", "o", "p" >>,
      << "T", "o", "p" >>,
      << "b", "r", "a", "n", "d", "s" >>,
      << "t", "o", "p", " ", "b", "r", "a", "n", "d", "s" >>,
      << "2" >>,
      << "1", "0" >>,
      << "m", "a", "r", "k", "e", "t", "p", "l", "a", "c", "e", " ", "s", "t", "a", "t", "s" >>,
      << "w", "e", "e", "k", "l", "y", " ", "t", "r", "e", "n", "d" >>,
      << "b", "r", "a", "n", "d", " ", "d", "e", "t", "a", "i", "l", "s" >>,
      << "h", "e", "l", "p" >> }

RECURSIVE Join(_)
Join(ws) ==
    IF Len(ws) = 1 THEN ws[1] ELSE ws[1] \o << " " >> \o Join(Tail(ws))

\* the datasets the chatbot is constructed with
ChatTables ==
    { Grid("num", nb, 1, 1) \o e :
        nb \in { 1, NumBrands },
        e \in { << >>, << Row(BrandNames[NumBrands], [t |-> "num", v |-> FirstWeek + 1],
                             "US", MaxCount + 1, "cat2", "inf2") >> } }

ChatInit ==
    /\ pc = "start"
    /\ file = NoFrame
    /\ df = NoFrame
    /\ processed = FALSE
    /\ unique_weeks = << >>
    /\ weekly_df = NoTable
    /\ brand_weekly = NoTable
    /\ brand_pivot = NoTable
    /\ marketplace_pivot = NoTable
    /\ brand_overviews = << >>
    /\ error = NoError
    /\ overview_text = << >>
    /\ chatbot_df \in ChatTables
    /\ query = << >>
    /\ response = NoResponse
    /\ AppStart

\* the questions typed into the chatbot page: up to MaxWords words
Queries == UNION { { Join(ws) : ws \in [ 1..n -> Vocabulary ] } : n \in 1..MaxWords }

\* query = query.lower(), then the loop over self.commands
Dispatched == [ q \in Queries |-> Dispatch(Lower(q)) ]

QueriesTopBrands == { q \in Queries : Dispatched[q] = 1 }
QueriesMarketplaceStats == { q \in Queries : Dispatched[q] = 2 }
QueriesWeeklyTrend == { q \in Queries : Dispatched[q] = 3 }
QueriesBrandDetails == { q \in Queries : Dispatched[q] = 4 }
QueriesHelp == { q \in Queries : Dispatched[q] = 5 }
QueriesOther == { q \in Queries : Dispatched[q] = 0 }

\* show_chatbot hands a non-empty question to process_query, which lower-cases
\* it and calls the handler of the first command found in it
AskTopBrands ==
    /\ response = NoResponse
    /\ \E q \in QueriesTopBrands :
          /\ query' = q
          /\ response' = _get_top_brands(chatbot_df, Lower(q))
    /\ UNCHANGED << chatbot_df, report, app >>

AskMarketplaceStats ==
    /\ response = NoResponse
    /\ \E q \in QueriesMarketplaceStats :
          /\ query' = q
          /\ response' = _get_marketplace_stats(chatbot_df)
    /\ UNCHANGED << chatbot_df, report, app >>

AskWeeklyTrend ==
    /\ response = NoResponse
    /\ \E q \in QueriesWeeklyTrend :
          /\ query' = q
          /\ response' = _get_weekly_trend(chatbot_df)
    /\ UNCHANGED << chatbot_df, report, app >>

AskBrandDetails ==
    /\ response = NoResponse
    /\ \E q \in QueriesBrandDetails :
          /\ query' = q
          /\ response' = _get_brand_details(chatbot_df, Lower(q))
    /\ UNCHANGED << chatbot_df, report, app >>

\* 'help' is found in the question: handler(query) raises TypeError
AskHelp ==
    /\ response = NoResponse
    /\ \E q \in QueriesHelp :
          /\ query' = q
          /\ response' = HelpCallRaises
    /\ UNCHANGED << chatbot_df, report, app >>

\* no command is found in the question: return self._get_help()
AskOther ==
    /\ response = NoResponse
    /\ \E q \in QueriesOther :
          /\ query' = q
          /\ response' = [ _get_help EXCEPT !.handler = "none" ]
    /\ UNCHANGED << chatbot_df, report, app >>

ChatNext ==
    \/ AskTopBrands
    \/ AskMarketplaceStats
    \/ AskWeeklyTrend
    \/ AskBrandDetails
    \/ AskHelp
    \/ AskOther

ChatSpec == ChatInit /\ [][ChatNext]_vars

\* ============================================================== DataProcessor
\* what pd.read_excel cannot open
Unreadable == [ unreadable |-> TRUE ]

DateText == << "2", "0", "2", "4", "-", "0", "1", "-", "0", "5" >>
DateCell(bad) == [ t |-> "str", v |-> IF bad THEN BadCell.v ELSE DateText ]

\* the k-th row of an uploaded sheet
DatedRow(k, bad) ==
    [ protected_brand_name |-> BrandNames[((k - 1) % 2) + 1],
      Week |-> WeekCell("num", FirstWeek + (((k - 1) \div 2) % 2)),
      marketplace_id |-> MktNames[(k % Len(MktNames)) + 1],
      count |-> MaxCount,
      gl_product_group_desc |-> "cat1",
      infringing_brand |-> "inf1",
      action_date |-> DateCell(bad) ]

\* n rows, the last one with an unparseable date when bad
Sheet(n, bad) == Seq1([ k \in 1..n |-> DatedRow(k, bad /\ k = n) ])

\* the columns load_data reads, some of which the upload may lack
LoadColumns == { "action_date", "count", "protected_brand_name", "Week", "marketplace_id" }
LoadMissing == { m \in SUBSET LoadColumns : Cardinality(m) \in 0..MaxMissing }

ExcelFiles ==
    { Unreadable } \cup
    { [ columns |-> Range(required_columns) \ m, rows |-> Sheet(n, bad) ] :
        n \in 1..MaxRows, bad \in BOOLEAN, m \in LoadMissing }

\* pd.to_datetime on one cell: text "YYYY-MM-DD" becomes a date
IsDateText(s) ==
    /\ Len(s) = 10
    /\ s[5] = "-" /\ s[8] = "-"
    /\ IsDigitText(SubSeq(s, 1, 4))
    /\ IsDigitText(SubSeq(s, 6, 7))
    /\ IsDigitText(SubSeq(s, 9, 10))
    /\ ParseDigits(SubSeq(s, 6, 7)) \in 1..12
    /\ ParseDigits(SubSeq(s, 9, 10)) \in 1..31

CanParseDate(cell) == IF cell.t = "date" THEN TRUE ELSE IsDateText(cell.v)

to_datetime(cell) ==
    IF cell.t = "date" THEN cell
    ELSE [ t |-> "date",
           v |-> << ParseDigits(SubSeq(cell.v, 1, 4)),
                    ParseDigits(SubSeq(cell.v, 6, 7)),
                    ParseDigits(SubSeq(cell.v, 9, 10)) >> ]

\* self.df['action_date'] = pd.to_datetime(self.df['action_date'])
ConvertDates(d) ==
    [ d EXCEPT !.rows =
        Seq1([ k \in 1..Len(d.rows) |->
                 [ d.rows[k] EXCEPT !.action_date = to_datetime(d.rows[k].action_date) ] ]) ]

Returned(dp) == [ dp |-> dp, raised |-> "none" ]
Raised(dp, what) == [ dp |-> dp, raised |-> what ]

\* DataProcessor._create_pivot_tables: brand_pivot is assigned before the
\* marketplace pivot is attempted
_create_pivot_tables(dp) ==
    IF ~({ "count", "protected_brand_name", "Week" } \subseteq dp.df.columns)
    THEN Raised(dp, "KeyError")
    ELSE LET with_brand == [ dp EXCEPT !.brand_pivot =
                               pivot_table(dp.df.rows, "protected_brand_name", BrandNames) ]
         IN  IF "marketplace_id" \notin dp.df.columns
             THEN Raised(with_brand, "KeyError")
             ELSE Returned([ with_brand EXCEPT !.marketplace_pivot =
                               pivot_table(dp.df.rows, "marketplace_id", MktNames) ])

\* DataProcessor.load_data: self.df is assigned as soon as the file is read
load_data(dp, f) ==
    IF f = Unreadable THEN Raised(dp, "ValueError")
    ELSE LET read == [ dp EXCEPT !.df = f ]
         IN  IF "action_date" \notin f.columns THEN Raised(read, "KeyError")
             ELSE IF \E k \in 1..Len(f.rows) : ~CanParseDate(f.rows[k].action_date)
                  THEN Raised(read, "DateParseError")
                  ELSE _create_pivot_tables([ read EXCEPT !.df = ConvertDates(f) ])

\* the report and the chatbot page take no part
ReportIdle ==
    /\ pc = "start" /\ file = NoFrame /\ df = NoFrame /\ processed = FALSE
    /\ unique_weeks = << >> /\ weekly_df = NoTable /\ brand_weekly = NoTable
    /\ brand_pivot = NoTable /\ marketplace_pivot = NoTable /\ brand_overviews = << >>
    /\ error = NoError /\ overview_text = << >>

ChatIdle == chatbot_df = << >> /\ query = << >> /\ response = NoResponse

ProcessorInit == ReportIdle /\ ChatIdle /\ AppStart

\* a load_data call that returns
LoadDataReturns ==
    /\ \E f \in ExcelFiles :
          LET call == load_data(data_processor, f) IN
          /\ call.raised = "none"
          /\ data_processor' = call.dp
          /\ uploaded_file' = f
    /\ load_error' = "none"
    /\ UNCHANGED << report, chat, chatbot, session_state, outcome, app_pc >>

\* a load_data call that re-raises what went wrong
LoadDataRaises ==
    /\ \E f \in ExcelFiles :
          LET call == load_data(data_processor, f) IN
          /\ call.raised # "none"
          /\ data_processor' = call.dp
          /\ load_error' = call.raised
          /\ uploaded_file' = f
    /\ UNCHANGED << report, chat, chatbot, session_state, outcome, app_pc >>

ProcessorNext == LoadDataReturns \/ LoadDataRaises

ProcessorSpec == ProcessorInit /\ [][ProcessorNext]_vars

\* ========================================================= ASINAnalyalysisApp
Pages == << "Overview", "Detailed Analysis", "Chatbot" >>

\* AnalysisChatbot(self.data_processor.df)
AnalysisChatbot(d) == [ df |-> d ]

\* st.session_state as a set of (key, value) pairs
HasKey(ss, key) == \E kv \in ss : kv[1] = key
Get(ss, key) == (CHOOSE kv \in ss : kv[1] = key)[2]
Set(ss, key, value) == { kv \in ss : kv[1] # key } \cup { << key, value >> }

\* show_overview and show_detailed_analysis subscript self.data_processor.df
show_overview(dp) == IF dp.df = None THEN "TypeError" ELSE "none"
show_detailed_analysis(dp) == IF dp.df = None THEN "TypeError" ELSE "none"

\* show_chatbot calls self.chatbot.process_query when a question was entered
show_chatbot(cb, asked) == IF asked /\ cb = None THEN "AttributeError" ELSE "none"

ShowPage(page, dp, cb, asked) ==
    IF page = "Overview" THEN show_overview(dp)
    ELSE IF page = "Detailed Analysis" THEN show_detailed_analysis(dp)
    ELSE show_chatbot(cb, asked)

\* the rest of run() once the upload, if any, has been handled
RunGuarded(dp, cb, ss, page, asked) ==
    IF ~Get(ss, "data_loaded")
    THEN [ dp |-> dp, cb |-> cb, ss |-> ss, load_error |-> "none",
           outcome |-> [ shown |-> "warning", raised |-> "none" ] ]
    ELSE [ dp |-> dp, cb |-> cb, ss |-> ss, load_error |-> "none",
           outcome |-> [ shown |-> page, raised |-> ShowPage(page, dp, cb, asked) ] ]

\* ASINAnalyalysisApp.run
run(dp, cb, ss, f, page, asked) ==
    LET ss1 == IF HasKey(ss, "data_loaded") THEN ss ELSE Set(ss, "data_loaded", FALSE)
    IN  IF f = None THEN RunGuarded(dp, cb, ss1, page, asked)
        ELSE LET call == load_data(dp, f)
             IN  IF call.raised # "none"
                 THEN [ dp |-> call.dp, cb |-> cb, ss |-> ss1, load_error |-> call.raised,
                        outcome |-> [ shown |-> "error", raised |-> "none" ] ]
                 ELSE RunGuarded(call.dp, AnalysisChatbot(call.dp.df),
                                 Set(ss1, "data_loaded", TRUE), page, asked)

AppInit == ReportIdle /\ ChatIdle /\ AppStart

\* the script is executed again: app = ASINAnalyalysisApp()
Construct ==
    /\ app_pc = "idle"
    /\ data_processor' = NewDataProcessor
    /\ chatbot' = None
    /\ load_error' = "none"
    /\ uploaded_file' = None
    /\ outcome' = NoOutcome
    /\ app_pc' = "constructed"
    /\ UNCHANGED << report, chat, session_state >>

Finish(f, r) ==
    /\ uploaded_file' = f
    /\ data_processor' = r.dp
    /\ chatbot' = r.cb
    /\ session_state' = r.ss
    /\ load_error' = r.load_error
    /\ outcome' = r.outcome
    /\ app_pc' = "idle"
    /\ UNCHANGED << report, chat >>

\* run() stops at st.error: load_data raised
RunLoadError ==
    /\ app_pc = "constructed"
    /\ \E f \in ExcelFiles, page \in Range(Pages), asked \in BOOLEAN :
          LET r == run(data_processor, chatbot, session_state, f, page, asked) IN
          r.outcome.shown = "error" /\ Finish(f, r)

\* run() stops at st.warning: nothing loaded in this session
RunWarning ==
    /\ app_pc = "constructed"
    /\ \E f \in { None } \cup ExcelFiles, page \in Range(Pages), asked \in BOOLEAN :
          LET r == run(data_processor, chatbot, session_state, f, page, asked) IN
          r.outcome.shown = "warning" /\ Finish(f, r)

\* run() passes the guard and shows the page picked in the sidebar
RunPage ==
    /\ app_pc = "constructed"
    /\ \E f \in { None } \cup ExcelFiles, page \in Range(Pages), asked \in BOOLEAN :
          LET r == run(data_processor, chatbot, session_state, f, page, asked) IN
          r.outcome.shown \in Range(Pages) /\ Finish(f, r)

AppNext == Construct \/ RunLoadError \/ RunWarning \/ RunPage

AppSpec == AppInit /\ [][AppNext]_vars

\* ==================================================================== claims
Answered == response # NoResponse

RECURSIVE FilteredTotalOf(_, _)
FilteredTotalOf(rows, b) ==
    IF rows = << >> THEN 0
    ELSE (IF Head(rows).protected_brand_name = b THEN Head(rows).count ELSE 0)
             + FilteredTotalOf(Tail(rows), b)

Found == { i \in 1..Len(commands) : Contains(Lower(query), commands[i]) }

FirstFound == CHOOSE i \in Found : \A j \in Found : i <= j

TopNBrandsText(n) == TopPrefix \o Str(n) \o << " ", "b", "r", "a", "n", "d", "s" >>

\* the brands of the chatbot's dataset with a greater total than b
Greater(b, rows) ==
    { x \in Brands : FilteredTotalOf(rows, x) > FilteredTotalOf(rows, b) }

\* C1 as stated: a question 'top N brands' with N a positive integer is
\* answered by the top-brands handler with the N brands of greatest total, in
\* descending order of total; 'top brands' is answered with N = 5.
C1_TopNBrands ==
    Answered =>
        \A n \in { 2, 10, DefaultN } :
            (\/ Lower(query) = TopNBrandsText(n)
             \/ (n = DefaultN /\ Lower(query) = commands[1])) =>
                /\ response.outcome = "returned"
                /\ response.handler = "top brands"
                /\ response.n = n
                /\ Len(response.result.index) =
                       Min(n, Cardinality(Range(Unique(chatbot_df, {}))))
                /\ \A i \in 1..Len(response.result.index) :
                       Cardinality(Greater(response.result.index[i], chatbot_df)) < i

\* C2: process_query dispatches to the handler of the first command, in the
\* declared order, that occurs in the lower-cased question; a later command
\* that also occurs never wins; with no command in it the question falls
\* through to the help text.
C2_FirstKeywordWins ==
    Answered =>
        IF Found = {} THEN response.handler = "none"
        ELSE response.handler = command_names[FirstFound]

\* two commands occur, and the one that wins stands later in the question
C2_Witness ==
    /\ Answered
    /\ Cardinality(Found) >= 2
    /\ Contains(Lower(query), commands[5] \o << " " >> \o commands[FirstFound])
    /\ \E i \in 1..Len(query) : query[i] # Lower(query)[i]

\* C3 as stated: process_query returns a string for every question and never
\* fails; a question whose first command is 'help' gets the help text, as does
\* a question with no command in it.
C3_AlwaysReturns ==
    Answered =>
        /\ response.outcome = "returned"
        /\ (Found = {} \/ FirstFound = 5) => response.text = _get_help.text

Pivots == { brand_weekly, brand_pivot, marketplace_pivot }

WeekColumns(t) == SubSeq(t.columns, 1, Len(t.columns) - 1)

DataRows(t) == 1..(Len(t.index) - 1)

AllCoercible(d) == \A k \in 1..Len(d.rows) : CanCoerce(d.rows[k].Week)

C5_TopPivotAlwaysBuilt ==
    (processed /\ unique_weeks # << >> /\ pc # "processed") =>
        /\ error = NoError
        /\ brand_weekly # NoTable
        /\ Len(WeekColumns(brand_weekly)) = Len(unique_weeks)
        /\ \A i \in DataRows(brand_weekly), j \in 1..Len(unique_weeks) :
               (\A k \in 1..Len(df.rows) :
                    ~(/\ df.rows[k].protected_brand_name = brand_weekly.index[i]
                      /\ df.rows[k].Week.v = unique_weeks[j]))
                   => brand_weekly.data[i][j] = 0

\* C6: in every pivot that is built, the cell at row 'Grand Total', column
\* 'Grand Total' is the sum of count over the rows whose Week is in the week
\* window (and, for the top-5 pivot, whose brand is one of the selected brands).
CornerCell(t) == t.data[Len(t.index)][Len(t.columns)]

RECURSIVE FilteredTotal(_, _, _)
FilteredTotal(rows, weeks, brands) ==
    IF rows = << >> THEN 0
    ELSE (IF Head(rows).Week.v \in weeks /\ Head(rows).protected_brand_name \in brands
          THEN Head(rows).count ELSE 0) + FilteredTotal(Tail(rows), weeks, brands)

C6_GrandTotalCell ==
    /\ brand_weekly # NoTable =>
           /\ brand_weekly.index[Len(brand_weekly.index)] = GrandTotal
           /\ CornerCell(brand_weekly) =
                  FilteredTotal(df.rows, Range(unique_weeks),
                                Range(brand_weekly.index) \ { GrandTotal })
    /\ \A t \in { brand_pivot, marketplace_pivot } :
           t # NoTable =>
               /\ t.index[Len(t.index)] = GrandTotal
               /\ CornerCell(t) = FilteredTotal(df.rows, Range(unique_weeks), Brands)

\* rows outside the window and rows of unselected brands exist and count
C6_Witness ==
    /\ pc = "done" /\ marketplace_pivot # NoTable
    /\ CornerCell(brand_weekly) > 0
    /\ CornerCell(brand_weekly) < CornerCell(brand_pivot)
    /\ CornerCell(brand_pivot) < FilteredTotal(df.rows, Weeks, Brands)

\* C7: the weekly summary lists one (week, total) entry per week of the week
\* window, in the window's descending order, each total the sum of count over
\* the rows of that week, then one 'Grand Total' entry equal to the sum of the
\* listed totals.
C7_WeeklySummary ==
    weekly_df # NoTable =>
        LET n == Len(unique_weeks) IN
        /\ Len(weekly_df.index) = n + 1
        /\ Len(weekly_df.data) = n + 1
        /\ \A i \in 1..n :
               /\ IsDigitText(weekly_df.index[i])
               /\ ParseDigits(weekly_df.index[i]) = unique_weeks[i]
               /\ weekly_df.data[i][1] =
                      FilteredTotal(df.rows, { unique_weeks[i] }, Brands)
        /\ \A i \in 1..(n - 1) :
               ParseDigits(weekly_df.index[i]) > ParseDigits(weekly_df.index[i + 1])
        /\ weekly_df.index[n + 1] = GrandTotalText
        /\ weekly_df.data[n + 1][1] = SeqSum([ i \in 1..n |-> weekly_df.data[i][1] ])

C7_Witness ==
    /\ weekly_df # NoTable
    /\ Len(unique_weeks) >= 2
    /\ weekly_df.data[1][1] > 0 /\ weekly_df.data[2][1] > weekly_df.data[1][1]

\* C8: the top-5 selection holds min(5, number of brands with rows in the week
\* window) distinct brands, and every selected brand's window total is at
\* least the window total of every brand with rows in the window that is not
\* selected; the top-5 pivot, when built, has exactly the selected brands.
BrandsInWindow ==
    { df.rows[k].protected_brand_name :
        k \in { k \in 1..Len(df.rows) : df.rows[k].Week.v \in Range(unique_weeks) } }

WindowTotal(b) == FilteredTotal(df.rows, Range(unique_weeks), { b })

C8_TopFive ==
    (pc \in { "processed", "summarised" }) =>
        LET sel == top_5_brands(df.rows, unique_weeks) IN
        /\ Len(sel) = Min(TopN, Cardinality(BrandsInWindow))
        /\ Cardinality(Range(sel)) = Len(sel)
        /\ Range(sel) \subseteq BrandsInWindow
        /\ \A b \in Range(sel), x \in BrandsInWindow \ Range(sel) :
               WindowTotal(b) >= WindowTotal(x)
        /\ brand_weekly # NoTable =>
               Range(brand_weekly.index) \ { GrandTotal } = Range(sel)

\* more than five brands in the window, and the one left out is not the last
C8_Witness ==
    /\ brand_weekly # NoTable
    /\ Cardinality(BrandsInWindow) > TopN
    /\ \E b \in BrandsInWindow \ Range(brand_weekly.index) :
           BrandRank(b) < NumBrands

\* C9: for every table with all required columns and numeric Week values the
\* loader succeeds and returns the min(4, k) greatest of the k distinct Week
\* values, without duplicates, in descending order.
C9_WeekWindow ==
    (pc \notin { "start", "read" } /\ MissingColumns(file) = {} /\ AllCoercible(file)) =>
        LET W == WeekValues(df.rows) IN
        /\ processed
        /\ Len(unique_weeks) = Min(WindowSize, Cardinality(W))
        /\ Range(unique_weeks) \subseteq W
        /\ \A i \in 1..(Len(unique_weeks) - 1) : unique_weeks[i] > unique_weeks[i + 1]
        /\ \A w \in W \ Range(unique_weeks), i \in 1..Len(unique_weeks) : w < unique_weeks[i]

C9_Witness ==
    /\ pc = "processed"
    /\ Cardinality(WeekValues(df.rows)) > WindowSize
    /\ \E k \in 1..Len(file.rows) : file.rows[k].Week.t = "str"

\* C10 as stated: when required columns are missing, the error names the
\* missing fields, the Week column is left as uploaded, and no table or
\* overview is produced.
C10_NamesAllMissing ==
    (pc = "done" /\ MissingColumns(file) # {}) =>
        /\ error.kind = "missing_column"
        /\ { error.what } = MissingColumns(file)
        /\ df = file
        /\ ~processed
        /\ weekly_df = NoTable /\ brand_weekly = NoTable /\ brand_pivot = NoTable
        /\ marketplace_pivot = NoTable /\ brand_overviews = << >>

\* C10 amended: when required columns are missing, the error names the first
\* missing column in the declared order (and only that one), the Week column
\* is left as uploaded, and no table or overview is produced.
C10_NamesFirstMissing ==
    (pc = "done" /\ MissingColumns(file) # {}) =>
        /\ error.kind = "missing_column"
        /\ error.what \in MissingColumns(file)
        /\ \A c \in MissingColumns(file) :
               IndexOf(required_columns, error.what) <= IndexOf(required_columns, c)
        /\ df = file
        /\ ~processed
        /\ weekly_df = NoTable /\ brand_weekly = NoTable /\ brand_pivot = NoTable
        /\ marketplace_pivot = NoTable /\ brand_overviews = << >>

C10_Witness ==
    /\ pc = "done"
    /\ Cardinality(MissingColumns(file)) > 1
    /\ error.kind = "missing_column"
    /\ \E k \in 1..Len(df.rows) : df.rows[k].Week.t = "str"

\* ------------------------------------------------------------------- C11
LineKinds(text) == { text[k].kind : k \in 1..Len(text) }

\* C11: for a top brand whose latest-week total count is 0, the overview is
\* produced without an exception and the text rendered for that brand holds
\* neither a top-marketplace line nor a top-category line.
C11_ZeroTotalOmitsLines ==
    (pc = "done" /\ error = NoError) =>
        \A i \in 1..Len(overview_text) :
            brand_overviews[i].total_suppressions = 0 =>
                LineKinds(overview_text[i]) \cap { "marketplace", "category" } = {}

\* ------------------------------------------------------------------- C12
\* the pivots built from the dataset the processor holds
PivotsOf(d) ==
    [ brand_pivot |-> pivot_table(d.rows, "protected_brand_name", BrandNames),
      marketplace_pivot |-> pivot_table(d.rows, "marketplace_id", MktNames) ]

FromOneUpload(dp) ==
    IF dp.df = None THEN dp.brand_pivot = None /\ dp.marketplace_pivot = None
    ELSE /\ LoadColumns \subseteq dp.df.columns
         /\ dp.brand_pivot = PivotsOf(dp.df).brand_pivot
         /\ dp.marketplace_pivot = PivotsOf(dp.df).marketplace_pivot

\* C12: after any sequence of load_data calls, returning or raising, the
\* processor's df, brand_pivot and marketplace_pivot come from the same
\* upload: a call replaces all three together or leaves all three as they were.
C12_ReplacedTogether == FromOneUpload(data_processor)

\* ------------------------------------------------------------------- C13
\* C13: across any sequence of runs, with data_loaded kept in the session,
\* whenever run() passes the data_loaded guard and shows the Overview,
\* Detailed Analysis or Chatbot page, the data processor of that run holds a
\* dataset (df is not None) and the chatbot has been constructed.
C13_PageHasData ==
    outcome.shown \in Range(Pages) =>
        data_processor.df # None /\ chatbot # None

====
